---- MODULE Spec2Model ----
(***************************************************************************)
(* A model of the mini-rdms engine: the value parser (sql_parser.py), the  *)
(* table / index storage with constraint enforcement (rdbms.py) and the    *)
(* command executor with its nested-loop join (database_engine.py).        *)
(*                                                                         *)
(* Encoding.                                                               *)
(*  - A Python string that is inspected character by character (a value    *)
(*    literal) is a sequence of one-character strings.                     *)
(*  - A column name or condition key is the sequence of its dot-free       *)
(*    segments: "id" is <<"id">>, "posts.user_id" is <<"posts","user_id">>.*)
(*    col.split('.') is then the sequence itself and f"{table}.{col}" is   *)
(*    <<table>> \o col.                                                    *)
(*  - A Python value is a record [t, n, s]: t is the Python type ("null",  *)
(*    "int", "float", "text"), n the number (floats in tenths) and s the   *)
(*    characters of a str.                                                 *)
(*  - A dict is a sequence of [k, v] entries with distinct keys, in        *)
(*    insertion order.                                                     *)
(*  - A message keeps the handler's prefix and the kind of the error, not  *)
(*    the names and values the code interpolates into it.                  *)
(***************************************************************************)
EXTENDS Integers, Sequences, FiniteSets, TLC

VARIABLES tables, pc, result, stmt, pre

vars == <<tables, pc, result, stmt, pre>>

----------------------------------------------------------------------------
(* Bounds of the model                                                     *)

MaxInserts == 3

----------------------------------------------------------------------------
(* Python values                                                           *)

Null == [t |-> "null", n |-> 0, s |-> <<>>]

IntV(k) == [t |-> "int", n |-> k, s |-> <<>>]

FloatV(tenths) == [t |-> "float", n |-> tenths, s |-> <<>>]

TextV(cs) == [t |-> "text", n |-> 0, s |-> cs]

IsNum(v) == v.t \in {"int", "float"}

\* the numeric value in tenths
Num(v) == IF v.t = "int" THEN 10 * v.n ELSE v.n

\* Python's == on values: int and float compare by number, None only
\* equals None, str only equals str
PyEq(a, b) ==
    \/ a.t = "null" /\ b.t = "null"
    \/ IsNum(a) /\ IsNum(b) /\ Num(a) = Num(b)
    \/ a.t = "text" /\ b.t = "text" /\ a.s = b.s

\* the dict key a value hashes to: equal values are one key
HashKey(v) == IF v.t = "int" THEN FloatV(10 * v.n) ELSE v

----------------------------------------------------------------------------
(* Characters and the value-literal parser                                 *)

LowerCase == <<"a","b","c","d","e","f","g","h","i","j","k","l","m",
               "n","o","p","q","r","s","t","u","v","w","x","y","z">>

UpperCase == <<"A","B","C","D","E","F","G","H","I","J","K","L","M",
               "N","O","P","Q","R","S","T","U","V","W","X","Y","Z">>

Digits == <<"0","1","2","3","4","5","6","7","8","9">>

UpperChar(c) ==
    IF \E i \in 1..26 : LowerCase[i] = c
    THEN UpperCase[CHOOSE i \in 1..26 : LowerCase[i] = c]
    ELSE c

Upper(cs) == [i \in 1..Len(cs) |-> UpperChar(cs[i])]

IsDigit(c) == \E i \in 1..10 : Digits[i] = c

DigitVal(c) == (CHOOSE i \in 1..10 : Digits[i] = c) - 1

RECURSIVE Strip(_)
Strip(cs) ==
    IF cs = <<>> THEN cs
    ELSE IF Head(cs) = " " THEN Strip(Tail(cs))
    ELSE IF cs[Len(cs)] = " " THEN Strip(SubSeq(cs, 1, Len(cs) - 1))
    ELSE cs

\* str.replace("''", "'"): left to right, non-overlapping
RECURSIVE Unescape(_)
Unescape(cs) ==
    IF Len(cs) < 2 THEN cs
    ELSE IF cs[1] = "'" /\ cs[2] = "'"
         THEN <<"'">> \o Unescape(SubSeq(cs, 3, Len(cs)))
         ELSE <<cs[1]>> \o Unescape(Tail(cs))

RECURSIVE DecVal(_)
DecVal(ds) ==
    IF ds = <<>> THEN 0
    ELSE 10 * DecVal(SubSeq(ds, 1, Len(ds) - 1)) + DigitVal(ds[Len(ds)])

AllDigits(ds) == \A i \in 1..Len(ds) : IsDigit(ds[i])

HasSign(cs) == cs # <<>> /\ cs[1] \in {"-", "+"}

Unsigned(cs) == IF HasSign(cs) THEN Tail(cs) ELSE cs

Signed(cs, k) == IF HasSign(cs) /\ cs[1] = "-" THEN 0 - k ELSE k

\* int(s) succeeds: an optional sign and one or more digits
IsIntLit(cs) == Unsigned(cs) # <<>> /\ AllDigits(Unsigned(cs))

DotAt(cs) == CHOOSE i \in 1..Len(cs) : cs[i] = "."

\* float(s) succeeds, for the literals with at most one fractional digit
\* that the model draws: optional sign, digits, one '.', digits
IsFloatLit(cs) ==
    LET u == Unsigned(cs) IN
    /\ \E i \in 1..Len(u) : u[i] = "."
    /\ LET d == DotAt(u)
           ip == SubSeq(u, 1, d - 1)
           fp == SubSeq(u, d + 1, Len(u))
       IN /\ AllDigits(ip) /\ AllDigits(fp)
          /\ Len(ip) + Len(fp) > 0
          /\ Len(fp) <= 1

FloatTenths(cs) ==
    LET u == Unsigned(cs)
        d == DotAt(u)
        ip == SubSeq(u, 1, d - 1)
        fp == SubSeq(u, d + 1, Len(u))
    IN Signed(cs, 10 * DecVal(ip) + DecVal(fp))

\* SQLParser._parse_value
ParseValue(value_str) ==
    LET cs == Strip(value_str) IN
    IF Upper(cs) = <<"N","U","L","L">> THEN Null
    ELSE IF cs # <<>> /\ cs[1] = "'" /\ cs[Len(cs)] = "'"
         THEN TextV(Unescape(SubSeq(cs, 2, Len(cs) - 1)))
    ELSE IF \E i \in 1..Len(cs) : cs[i] = "."
         THEN IF IsFloatLit(cs) THEN FloatV(FloatTenths(cs)) ELSE TextV(cs)
    ELSE IF IsIntLit(cs) THEN IntV(Signed(cs, DecVal(Unsigned(cs))))
    ELSE TextV(cs)

----------------------------------------------------------------------------
(* Dicts: sequences of [k, v] entries with distinct keys                   *)

Keys(d) == {d[i].k : i \in 1..Len(d)}

Has(d, key) == \E i \in 1..Len(d) : d[i].k = key

Get(d, key) == d[CHOOSE i \in 1..Len(d) : d[i].k = key].v

\* d[key] = val: an existing key keeps its position
DictSet(d, key, val) ==
    IF Has(d, key)
    THEN [i \in 1..Len(d) |-> IF d[i].k = key THEN [k |-> key, v |-> val] ELSE d[i]]
    ELSE Append(d, [k |-> key, v |-> val])

\* dict(zip(ks, vs))
RECURSIVE DictZip(_, _)
DictZip(ks, vs) ==
    IF ks = <<>> \/ vs = <<>> THEN <<>>
    ELSE LET n == IF Len(ks) < Len(vs) THEN Len(ks) ELSE Len(vs)
         IN DictSet(DictZip(SubSeq(ks, 1, n - 1), SubSeq(vs, 1, n - 1)), ks[n], vs[n])

----------------------------------------------------------------------------
(* rdbms.py: Column, Index                                                 *)

RowIdKey == <<"_row_id">>

Column(name, data_type, constraint, nullable) ==
    [name |-> name, data_type |-> data_type,
     constraint |-> constraint, nullable |-> nullable]

\* Column.validate_value
validate_value(column, value) ==
    IF value.t = "null" THEN column.nullable
    ELSE IF column.data_type = "INT" THEN value.t = "int"
    ELSE IF column.data_type = "TEXT" THEN value.t = "text"
    ELSE IF column.data_type = "FLOAT" THEN value.t \in {"int", "float"}
    ELSE FALSE

\* first position of a list element equal (==) to x, 0 when there is none
FirstEq(list, x) ==
    IF \E i \in 1..Len(list) : PyEq(list[i], x)
    THEN CHOOSE i \in 1..Len(list) :
            PyEq(list[i], x) /\ \A j \in 1..(i - 1) : ~PyEq(list[j], x)
    ELSE 0

RemoveAt(list, i) == SubSeq(list, 1, i - 1) \o SubSeq(list, i + 1, Len(list))

\* an Index is its dict: a function from the hashed value to the list of
\* row ids. Index.add
IndexAdd(index, value, row_id) ==
    LET key == HashKey(value) IN
    IF key \in DOMAIN index
    THEN [index EXCEPT ![key] = Append(@, row_id)]
    ELSE [x \in DOMAIN index \cup {key} |->
            IF x = key THEN <<row_id>> ELSE index[x]]

\* a faulty remove that keeps the entry (sensitivity of
\* UpdateMovesKeyValue)
IndexRemoveKeeps(index, value, row_id) == index

\* Index.remove
IndexRemove(index, value, row_id) ==
    LET key == HashKey(value) IN
    IF key \in DOMAIN index /\ FirstEq(index[key], row_id) # 0
    THEN LET rest == RemoveAt(index[key], FirstEq(index[key], row_id)) IN
         IF rest = <<>>
         THEN [x \in DOMAIN index \ {key} |-> index[x]]
         ELSE [index EXCEPT ![key] = rest]
    ELSE index

\* Index.find
IndexFind(index, value) ==
    IF HashKey(value) \in DOMAIN index THEN index[HashKey(value)] ELSE <<>>

EmptyIndex == [x \in {} |-> <<>>]

----------------------------------------------------------------------------
(* rdbms.py: Table                                                         *)

\* {col.name: col for col in columns}: the position of the first
\* occurrence of a name, the descriptor of the last
ColumnsDict(columns) ==
    LET firsts == {i \in 1..Len(columns) :
                     \A j \in 1..(i - 1) : columns[j].name # columns[i].name}
        lastOf(nm) == CHOOSE i \in 1..Len(columns) :
                        /\ columns[i].name = nm
                        /\ \A j \in (i + 1)..Len(columns) : columns[j].name # nm
        keep == SelectSeq([i \in 1..Len(columns) |-> i], LAMBDA i : i \in firsts)
    IN [i \in 1..Len(keep) |-> columns[lastOf(columns[keep[i]].name)]]

\* Table.__init__
NewTable(name, columns) ==
    [name |-> name,
     columns |-> ColumnsDict(columns),
     rows |-> <<>>,
     indexes |-> [c \in {columns[i].name : i \in
                          {j \in 1..Len(columns) :
                             columns[j].constraint \in {"PRIMARY_KEY", "UNIQUE"}}}
                   |-> EmptyIndex],
     next_row_id |-> 1]

ColNames(T) == {T.columns[i].name : i \in 1..Len(T.columns)}

ColOf(T, name) == T.columns[CHOOSE i \in 1..Len(T.columns) : T.columns[i].name = name]

\* An operation of Table returns or raises: err is "" or the message of
\* the ValueError, table the table it leaves, ret the returned number
Outcome(err, T, ret) == [err |-> err, table |-> T, ret |-> ret]

\* the first position a loop stops at: the least of the positions S at which
\* its test fails, 0 when there is none
FirstPos(S) == IF S = {} THEN 0 ELSE CHOOSE i \in S : \A j \in S : i <= j

\* the validation loop shared by insert_row and update_rows: the message
\* of the first failing entry, "" when all pass
ValidateError(T, values) ==
    LET bad(i) == \/ values[i].k \notin ColNames(T)
                  \/ ~validate_value(ColOf(T, values[i].k), values[i].v)
        p == FirstPos({i \in 1..Len(values) : bad(i)})
    IN IF p = 0 THEN ""
       ELSE IF values[p].k \notin ColNames(T) THEN "Unknown column"
       ELSE "Invalid value for column"

\* the constraint check of one (column, value) against the indexes
ConstraintError(T, col_name, value) ==
    LET column == ColOf(T, col_name) IN
    IF column.constraint = "PRIMARY_KEY"
    THEN IF value.t = "null" THEN "Primary key cannot be null"
         ELSE IF IndexFind(T.indexes[col_name], value) # <<>>
              THEN "Primary key violation"
         ELSE ""
    ELSE IF column.constraint = "UNIQUE" /\ value.t # "null"
         THEN IF IndexFind(T.indexes[col_name], value) # <<>>
              THEN "Unique constraint violation"
              ELSE ""
    ELSE ""

\* a faulty row that holds 0, not None, in the columns left out
\* (sensitivity of InsertAppendsFullRow)
NewRowDefaultsZero(T, values) ==
    [key \in {RowIdKey} \cup ColNames(T) |->
        IF key \in ColNames(T)
        THEN IF Has(values, key) THEN Get(values, key) ELSE IntV(0)
        ELSE IntV(T.next_row_id)]

\* the row insert_row builds: the identifier first, then every schema column
NewRow(T, values) ==
    [key \in {RowIdKey} \cup ColNames(T) |->
        IF key \in ColNames(T)
        THEN IF Has(values, key) THEN Get(values, key) ELSE Null
        ELSE IntV(T.next_row_id)]

RECURSIVE AddToIndexes(_, _, _, _)
AddToIndexes(indexes, values, row_id, i) ==
    IF i > Len(values) THEN indexes
    ELSE AddToIndexes(
            IF values[i].k \in DOMAIN indexes
            THEN [indexes EXCEPT ![values[i].k] = IndexAdd(@, values[i].v, row_id)]
            ELSE indexes,
            values, row_id, i + 1)

\* a faulty insert_row that takes the identifier before it checks: a
\* rejected insert then consumes one (sensitivity of FailedInsertLeavesTable)
insert_row_counts_first(T, values) ==
    LET verr == ValidateError(T, values)
        bad(i) == ConstraintError(T, values[i].k, values[i].v) # ""
        p == FirstPos({i \in 1..Len(values) : bad(i)})
        taken == [T EXCEPT !.next_row_id = @ + 1]
    IN IF verr # "" THEN Outcome(verr, taken, 0)
       ELSE IF p # 0
            THEN Outcome(ConstraintError(T, values[p].k, values[p].v), taken, 0)
       ELSE Outcome("",
                [T EXCEPT !.rows = Append(@, NewRow(T, values)),
                          !.next_row_id = @ + 1,
                          !.indexes = AddToIndexes(@, values, IntV(T.next_row_id), 1)],
                T.next_row_id)

\* Table.insert_row
insert_row(T, values) ==
    LET verr == ValidateError(T, values)
        bad(i) == ConstraintError(T, values[i].k, values[i].v) # ""
        p == FirstPos({i \in 1..Len(values) : bad(i)})
    IN IF verr # "" THEN Outcome(verr, T, 0)
       ELSE IF p # 0
            THEN Outcome(ConstraintError(T, values[p].k, values[p].v), T, 0)
       ELSE Outcome("",
                [T EXCEPT !.rows = Append(@, NewRow(T, values)),
                          !.next_row_id = @ + 1,
                          !.indexes = AddToIndexes(@, values, IntV(T.next_row_id), 1)],
                T.next_row_id)

\* the test of find_rows on one row
RowMatches(row, conditions) ==
    \A i \in 1..Len(conditions) :
        conditions[i].k \in DOMAIN row /\ PyEq(row[conditions[i].k], conditions[i].v)

\* Table.find_rows, as the positions of the rows it returns, in row order.
\* conditions is <<>> for None and for the empty dict alike
FindPositions(T, conditions) ==
    SelectSeq([i \in 1..Len(T.rows) |-> i],
              LAMBDA i : conditions = <<>> \/ RowMatches(T.rows[i], conditions))

find_rows(T, conditions) ==
    LET ps == FindPositions(T, conditions) IN [i \in 1..Len(ps) |-> T.rows[ps[i]]]

\* the inner loop of update_rows on the row at position p, from the j-th
\* SET entry on: remove the old index entry, check, mutate, add
RECURSIVE UpdateColumns(_, _, _, _, _)
UpdateColumns(T, p, row_id, updates, j) ==
    IF j > Len(updates) THEN Outcome("", T, 0)
    ELSE
    LET col_name == updates[j].k
        new_value == updates[j].v
        old_value == T.rows[p][col_name]
        removed == IF col_name \in DOMAIN T.indexes
                   THEN [T EXCEPT !.indexes[col_name] = IndexRemove(@, old_value, row_id)]
                   ELSE T
        cerr == ConstraintError(removed, col_name, new_value)
        mutated == [removed EXCEPT !.rows[p][col_name] = new_value]
        added == IF col_name \in DOMAIN T.indexes
                 THEN [mutated EXCEPT !.indexes[col_name] = IndexAdd(@, new_value, row_id)]
                 ELSE mutated
    IN IF PyEq(old_value, new_value) THEN UpdateColumns(T, p, row_id, updates, j + 1)
       ELSE IF cerr # "" THEN Outcome(cerr, removed, 0)
       ELSE UpdateColumns(added, p, row_id, updates, j + 1)

\* a faulty outer loop that counts a row only when the update changed it
\* (sensitivity of AffectedRowsCounts)
RECURSIVE UpdateLoopCountsChanged(_, _, _, _, _)
UpdateLoopCountsChanged(T, positions, updates, i, updated_count) ==
    IF i > Len(positions) THEN Outcome("", T, updated_count)
    ELSE
    LET p == positions[i]
        row_id == T.rows[p][RowIdKey]
        verr == ValidateError(T, updates)
        done == UpdateColumns(T, p, row_id, updates, 1)
    IN IF verr # "" THEN Outcome(verr, T, 0)
       ELSE IF done.err # "" THEN done
       ELSE UpdateLoopCountsChanged(done.table, positions, updates, i + 1,
                IF done.table = T THEN updated_count ELSE updated_count + 1)

\* a faulty outer loop that checks the types of the new values of a row
\* after it has applied them (sensitivity of InvalidUpdateMutatesNothing)
RECURSIVE UpdateLoopValidatesLate(_, _, _, _, _)
UpdateLoopValidatesLate(T, positions, updates, i, updated_count) ==
    IF i > Len(positions) THEN Outcome("", T, updated_count)
    ELSE
    LET p == positions[i]
        row_id == T.rows[p][RowIdKey]
        unknown == \E j \in 1..Len(updates) : updates[j].k \notin ColNames(T)
        verr == ValidateError(T, updates)
        done == UpdateColumns(T, p, row_id, updates, 1)
    IN IF unknown THEN Outcome(verr, T, 0)
       ELSE IF done.err # "" THEN done
       ELSE IF verr # "" THEN Outcome(verr, done.table, 0)
       ELSE UpdateLoopValidatesLate(done.table, positions, updates, i + 1,
                                    updated_count + 1)

\* the outer loop of update_rows over the matched positions, from the i-th
RECURSIVE UpdateLoop(_, _, _, _, _)
UpdateLoop(T, positions, updates, i, updated_count) ==
    IF i > Len(positions) THEN Outcome("", T, updated_count)
    ELSE
    LET p == positions[i]
        row_id == T.rows[p][RowIdKey]
        verr == ValidateError(T, updates)
        done == UpdateColumns(T, p, row_id, updates, 1)
    IN IF verr # "" THEN Outcome(verr, T, 0)
       ELSE IF done.err # "" THEN done
       ELSE UpdateLoop(done.table, positions, updates, i + 1, updated_count + 1)

\* a faulty update_rows that validates the SET values before it looks for
\* the rows (sensitivity of UpdateOfNoRowSucceeds)
update_rows_validates_first(T, conditions, updates) ==
    IF ValidateError(T, updates) # "" THEN Outcome(ValidateError(T, updates), T, 0)
    ELSE UpdateLoop(T, FindPositions(T, conditions), updates, 1, 0)

\* a faulty update_rows that restores the table when a row is rejected
\* (sensitivity of RejectedUpdateKeepsEarlierRows)
update_rows_rolls_back(T, conditions, updates) ==
    LET out == UpdateLoop(T, FindPositions(T, conditions), updates, 1, 0)
    IN IF out.err # "" THEN Outcome(out.err, T, 0) ELSE out

\* Table.update_rows
update_rows(T, conditions, updates) ==
    UpdateLoop(T, FindPositions(T, conditions), updates, 1, 0)

\* Python's == on two rows (dicts)
RowEq(r1, r2) == DOMAIN r1 = DOMAIN r2 /\ \A key \in DOMAIN r1 : PyEq(r1[key], r2[key])

\* a faulty removal that drops the head of the list whatever the row
\* (sensitivity of DeleteRemovesExactlyMatching)
RemoveRowHead(rows, row) == IF rows = <<>> THEN rows ELSE Tail(rows)

\* list.remove(row): drops the first element equal to row
RemoveRow(rows, row) ==
    LET hit(i) == RowEq(rows[i], row)
        p == IF \E i \in 1..Len(rows) : hit(i)
             THEN CHOOSE i \in 1..Len(rows) : hit(i) /\ \A j \in 1..(i - 1) : ~hit(j)
             ELSE 0
    IN IF p = 0 THEN rows ELSE RemoveAt(rows, p)

\* a faulty removal that leaves the indexes as they are (sensitivity of
\* DeleteFreesKeyValues)
UnindexRowSkips(indexes, row) == indexes

\* the removal of one row from every index (the loop over self.indexes)
UnindexRow(indexes, row) ==
    [c \in DOMAIN indexes |->
        IF c \in DOMAIN row THEN IndexRemove(indexes[c], row[c], row[RowIdKey])
        ELSE indexes[c]]

\* the loop of delete_rows over the rows found, from the i-th
RECURSIVE DeleteLoop(_, _, _, _)
DeleteLoop(T, rows_to_delete, i, deleted_count) ==
    IF i > Len(rows_to_delete) THEN Outcome("", T, deleted_count)
    ELSE DeleteLoop([T EXCEPT !.indexes = UnindexRow(@, rows_to_delete[i]),
                              !.rows = RemoveRow(@, rows_to_delete[i])],
                    rows_to_delete, i + 1, deleted_count + 1)

\* Table.delete_rows
delete_rows(T, conditions) == DeleteLoop(T, find_rows(T, conditions), 1, 0)

----------------------------------------------------------------------------
(* sql_parser.py. A statement is the normalised text as the regular        *)
(* expression of its shape splits it:                                      *)
(*   [kind |-> "create", table, defs]   defs: the column definitions, each *)
(*        [name, rest] with rest the tokens after the name                 *)
(*   [kind |-> "insert", table, columns, values]   values: the literals    *)
(*   [kind |-> "select", table, columns, where, join_table, on]            *)
(*   [kind |-> "update", table, set, where]                                *)
(*   [kind |-> "delete", table, where]                                     *)
(*   [kind |-> "other"]   a text no shape matches                          *)
(* A clause (where, on, set) is the sequence of its conjuncts or pairs     *)
(* [k, lit, eq, and]; eq is whether the part contains '=', and the word    *)
(* written before the conjunct. An absent clause is <<>> and an absent     *)
(* JOIN is the table name "".                                              *)

tINT == <<"I","N","T">>

tTEXT == <<"T","E","X","T">>

tFLOAT == <<"F","L","O","A","T">>

tPRIMARY_KEY == <<"P","R","I","M","A","R","Y","_","K","E","Y">>

tPRIMARY == <<"P","R","I","M","A","R","Y">>

tUNIQUE == <<"U","N","I","Q","U","E">>

tNOT == <<"N","O","T">>

tNULL == <<"N","U","L","L">>

tAND == <<"A","N","D">>

Star == <<"*">>

\* parts.index(part) on the tokens after the name, as a position in them
TokenIndex(rest, part) == CHOOSE i \in 1..Len(rest) :
                            rest[i] = part /\ \A j \in 1..(i - 1) : rest[j] # part

\* the scan of the constraint tokens parts[2:] of one column definition,
\* from position i of rest: rest[1] is the type, the name is parts[0]
RECURSIVE ScanConstraints(_, _, _, _, _)
ScanConstraints(name, rest, i, constraint, nullable) ==
    IF i > Len(rest) THEN [constraint |-> constraint, nullable |-> nullable]
    ELSE LET part == rest[i]
             part_upper == Upper(part)
             \* parts.index(part): the name at parts[0] is no keyword, so
             \* the first occurrence lies in rest, and parts[at] = rest[at]
             at == TokenIndex(rest, part)
         IN IF part_upper = tPRIMARY_KEY \/ part_upper = tPRIMARY
            THEN ScanConstraints(name, rest, i + 1, "PRIMARY_KEY", FALSE)
            ELSE IF part_upper = tUNIQUE
            THEN ScanConstraints(name, rest, i + 1, "UNIQUE", nullable)
            ELSE IF /\ part_upper = tNOT
                    /\ Len(rest) > at
                    /\ Upper(rest[at + 1]) = tNULL
            THEN ScanConstraints(name, rest, i + 1, constraint, FALSE)
            ELSE ScanConstraints(name, rest, i + 1, constraint, nullable)

\* the body of the loop of _parse_create_table for one definition:
\* err is "" or the message raised
ParseColumnDef(def) ==
    IF def.rest = <<>> THEN [err |-> "Invalid column definition"]
    ELSE LET col_type_str == Upper(def.rest[1]) IN
         IF col_type_str \notin {tINT, tTEXT, tFLOAT}
         THEN [err |-> "Unsupported data type"]
         ELSE LET data_type == IF col_type_str = tINT THEN "INT"
                               ELSE IF col_type_str = tTEXT THEN "TEXT"
                               ELSE "FLOAT"
                  c == ScanConstraints(def.name, def.rest, 2, "NONE", TRUE)
              IN [err |-> "",
                  column |-> Column(def.name, data_type, c.constraint, c.nullable)]

\* the result of a parse: err is "" or the message of the ValueError
Parsed(cmd) == [err |-> "", cmd |-> cmd]

ParseFail(msg) == [err |-> msg]

\* SQLParser._parse_create_table
ParseCreateTable(st) ==
    LET cols == [i \in 1..Len(st.defs) |-> ParseColumnDef(st.defs[i])]
        bad(i) == cols[i].err # ""
        p == FirstPos({i \in 1..Len(cols) : bad(i)})
    IN IF p # 0 THEN ParseFail(cols[p].err)
       ELSE Parsed([op |-> "create", table_name |-> st.table,
                    columns |-> [i \in 1..Len(cols) |-> cols[i].column]])

\* SQLParser._parse_insert
ParseInsert(st) ==
    IF Len(st.columns) # Len(st.values)
    THEN ParseFail("Number of columns doesn't match number of values")
    ELSE Parsed([op |-> "insert", table_name |-> st.table,
                 values |-> DictZip(st.columns,
                                    [i \in 1..Len(st.values) |-> ParseValue(st.values[i])])])

\* the text of a key: its segments with the dots between them
RECURSIVE KeyText(_)
KeyText(key) ==
    IF Len(key) <= 1 THEN key ELSE <<key[1], ".">> \o KeyText(Tail(key))

\* the string of a sequence of characters
RECURSIVE JoinStr(_)
JoinStr(cs) == IF cs = <<>> THEN "" ELSE cs[1] \o JoinStr(Tail(cs))

\* the text of one conjunct of a WHERE or ON clause as written
ConjText(c) == KeyText(c.k) \o (IF c.eq THEN <<" ", "=", " ">> \o c.lit ELSE <<>>)

\* conditions_str.split('AND'): a WHERE or ON clause as written is the
\* sequence of its conjuncts, each with the word that joins it to the one
\* before. Only the exact word AND separates two parts; a conjunct joined
\* by any other spelling stays in the part before it: in its value when
\* that part has an '=', else in its key (the partition at the first '=')
RECURSIVE SplitAnd(_)
SplitAnd(clause) ==
    IF Len(clause) <= 1 THEN clause
    ELSE LET parts == SplitAnd(SubSeq(clause, 1, Len(clause) - 1))
             c == clause[Len(clause)]
             last == parts[Len(parts)]
             word == <<" ">> \o c.and \o <<" ">>
             joined ==
                IF last.eq
                THEN [last EXCEPT !.lit = @ \o word \o ConjText(c)]
                ELSE [last EXCEPT !.k = SubSeq(@, 1, Len(@) - 1)
                                         \o <<@[Len(@)] \o JoinStr(word) \o c.k[1]>>
                                         \o Tail(c.k),
                                  !.lit = c.lit, !.eq = c.eq]
         IN IF c.and = tAND THEN Append(parts, c)
            ELSE SubSeq(parts, 1, Len(parts) - 1) \o <<joined>>

\* the dict a clause builds: conditions[col] = _parse_value(value), in order
RECURSIVE ClauseDict(_)
ClauseDict(clause) ==
    IF clause = <<>> THEN <<>>
    ELSE DictSet(ClauseDict(SubSeq(clause, 1, Len(clause) - 1)),
                 clause[Len(clause)].k, ParseValue(clause[Len(clause)].lit))

ClauseBad(clause) == \E i \in 1..Len(clause) : ~clause[i].eq

\* SQLParser._parse_select (with _parse_conditions for WHERE and ON)
ParseSelect(st) ==
    IF ClauseBad(SplitAnd(st.where)) \/ ClauseBad(SplitAnd(st.on))
    THEN ParseFail("Invalid condition")
    ELSE Parsed([op |-> "select", table_name |-> st.table, columns |-> st.columns,
                 where_conditions |-> ClauseDict(SplitAnd(st.where)),
                 join_table |-> st.join_table,
                 join_conditions |-> ClauseDict(SplitAnd(st.on))])

\* SQLParser._parse_update
ParseUpdate(st) ==
    IF ClauseBad(st.set) THEN ParseFail("Invalid SET clause")
    ELSE IF ClauseBad(SplitAnd(st.where)) THEN ParseFail("Invalid condition")
    ELSE Parsed([op |-> "update", table_name |-> st.table,
                 set_values |-> ClauseDict(st.set),
                 where_conditions |-> ClauseDict(SplitAnd(st.where))])

\* SQLParser._parse_delete
ParseDelete(st) ==
    IF ClauseBad(SplitAnd(st.where)) THEN ParseFail("Invalid condition")
    ELSE Parsed([op |-> "delete", table_name |-> st.table,
                 where_conditions |-> ClauseDict(SplitAnd(st.where))])

\* SQLParser.parse
Parse(st) ==
    IF st.kind = "create" THEN ParseCreateTable(st)
    ELSE IF st.kind = "insert" THEN ParseInsert(st)
    ELSE IF st.kind = "select" THEN ParseSelect(st)
    ELSE IF st.kind = "update" THEN ParseUpdate(st)
    ELSE IF st.kind = "delete" THEN ParseDelete(st)
    ELSE ParseFail("Unsupported SQL syntax")

----------------------------------------------------------------------------
(* rdbms.py: Database; database_engine.py: DatabaseEngine                  *)

\* QueryResult; data is [some |-> FALSE] for None
QueryResult(success, message, data, affected_rows) ==
    [success |-> success, message |-> message, data |-> data,
     affected_rows |-> affected_rows]

NoData == [some |-> FALSE, rows |-> <<>>]

Data(rows) == [some |-> TRUE, rows |-> rows]

\* the outcome of a handler: the database it leaves and the result
Done(db, res) == [db |-> db, result |-> res]

\* Database.get_table raises when the name is not registered
Missing(db, name) == name \notin DOMAIN db

\* a faulty create_table without the test of the name: the new table takes
\* the place of the registered one (sensitivity of CreateExistingTableFails)
ExecuteCreateTableReplaces(db, command) ==
    Done([n \in DOMAIN db \cup {command.table_name} |->
             IF n = command.table_name
             THEN NewTable(command.table_name, command.columns)
             ELSE db[n]],
         QueryResult(TRUE, "Table created", NoData, 0))

\* Database.create_table and _execute_create_table
ExecuteCreateTable(db, command) ==
    IF command.table_name \in DOMAIN db
    THEN Done(db, QueryResult(FALSE, "Failed to create table: Table already exists",
                              NoData, 0))
    ELSE Done([n \in DOMAIN db \cup {command.table_name} |->
                 IF n = command.table_name
                 THEN NewTable(command.table_name, command.columns)
                 ELSE db[n]],
              QueryResult(TRUE, "Table created", NoData, 0))

\* _execute_insert
ExecuteInsert(db, command) ==
    IF Missing(db, command.table_name)
    THEN Done(db, QueryResult(FALSE, "Failed to insert: Table does not exist", NoData, 0))
    ELSE LET out == insert_row(db[command.table_name], command.values) IN
         IF out.err # ""
         THEN Done([db EXCEPT ![command.table_name] = out.table],
                   QueryResult(FALSE, "Failed to insert: " \o out.err, NoData, 0))
         ELSE Done([db EXCEPT ![command.table_name] = out.table],
                   QueryResult(TRUE, "Inserted 1 row", NoData, 1))

\* the projection of one row on the requested keys
Project(row, columns) ==
    [key \in {columns[i] : i \in 1..Len(columns)} \cap DOMAIN row |-> row[key]]

ProjectAll(rows, columns) ==
    IF columns # <<Star>>
    THEN [i \in 1..Len(rows) |-> Project(rows[i], columns)]
    ELSE rows

\* dict.get(col_name) != value
GetDiffers(row, col_name, value) ==
    IF <<col_name>> \in DOMAIN row THEN ~PyEq(row[<<col_name>>], value)
    ELSE ~PyEq(Null, value)

\* a faulty check that looks for an unqualified key in the right row only
\* when the left row has no such field (sensitivity of
\* JoinKeepsPairsNotDisqualified)
RECURSIVE PairCheckLeftFirst(_, _, _, _, _, _)
PairCheckLeftFirst(conds, i, left_name, right_name, left_row, right_row) ==
    IF i > Len(conds) THEN "pass"
    ELSE LET col == conds[i].k
             value == conds[i].v
             next == PairCheckLeftFirst(conds, i + 1, left_name, right_name,
                                        left_row, right_row)
         IN IF Len(col) > 1
            THEN IF Len(col) # 2 THEN "raise"
                 ELSE IF col[1] = left_name
                      THEN IF GetDiffers(left_row, col[2], value) THEN "fail" ELSE next
                 ELSE IF col[1] = right_name
                      THEN IF GetDiffers(right_row, col[2], value) THEN "fail" ELSE next
                 ELSE next
            ELSE IF col \in DOMAIN left_row
                 THEN IF ~PyEq(left_row[col], value) THEN "fail" ELSE next
            ELSE IF col \in DOMAIN right_row /\ ~PyEq(right_row[col], value) THEN "fail"
            ELSE next

\* the check of a condition dict on a (left, right) pair, from its i-th
\* entry: "pass", "fail" (a break with match = False) or "raise" (the
\* unpacking of col.split('.') into two names fails)
RECURSIVE PairCheck(_, _, _, _, _, _)
PairCheck(conds, i, left_name, right_name, left_row, right_row) ==
    IF i > Len(conds) THEN "pass"
    ELSE LET col == conds[i].k
             value == conds[i].v
             next == PairCheck(conds, i + 1, left_name, right_name, left_row, right_row)
         IN IF Len(col) > 1
            THEN IF Len(col) # 2 THEN "raise"
                 ELSE IF col[1] = left_name
                      THEN IF GetDiffers(left_row, col[2], value) THEN "fail" ELSE next
                 ELSE IF col[1] = right_name
                      THEN IF GetDiffers(right_row, col[2], value) THEN "fail" ELSE next
                 ELSE next
            ELSE IF col \in DOMAIN left_row /\ ~PyEq(left_row[col], value) THEN "fail"
            ELSE IF col \in DOMAIN right_row /\ ~PyEq(right_row[col], value) THEN "fail"
            ELSE next

\* the verdict on one pair: the join conditions, then the WHERE conditions
PairVerdict(command, left_row, right_row) ==
    LET j == PairCheck(command.join_conditions, 1, command.table_name,
                       command.join_table, left_row, right_row)
    IN IF j # "pass" THEN j
       ELSE PairCheck(command.where_conditions, 1, command.table_name,
                      command.join_table, left_row, right_row)

\* the merged row: left columns prefixed, then right columns prefixed
\* (a later assignment of the same key overwrites)
Merge(left_name, right_name, left_row, right_row) ==
    LET lk == {<<left_name>> \o c : c \in DOMAIN left_row \ {RowIdKey}}
        rk == {<<right_name>> \o c : c \in DOMAIN right_row \ {RowIdKey}}
    IN [key \in lk \cup rk |->
          IF key \in rk THEN right_row[Tail(key)] ELSE left_row[Tail(key)]]

\* a faulty nesting of the two loops: the right rows outside, the left
\* rows inside (sensitivity of CrossJoinReturnsAllPairs)
PairsRightMajor(nl, nr) ==
    [x \in 1..(nl * nr) |-> <<((x - 1) % nl) + 1, ((x - 1) \div nl) + 1>>]

\* the pairs of the nested loop in order: left-major
Pairs(nl, nr) ==
    [x \in 1..(nl * nr) |-> <<((x - 1) \div nr) + 1, ((x - 1) % nr) + 1>>]

\* _execute_join_select
ExecuteJoinSelect(db, command) ==
    IF Missing(db, command.table_name) \/ Missing(db, command.join_table)
    THEN Done(db, QueryResult(FALSE, "Failed to join: Table does not exist", NoData, 0))
    ELSE
    LET left_rows == find_rows(db[command.table_name], <<>>)
        right_rows == find_rows(db[command.join_table], <<>>)
        pairs == Pairs(Len(left_rows), Len(right_rows))
        verdict(x) == PairVerdict(command, left_rows[pairs[x][1]], right_rows[pairs[x][2]])
        kept == SelectSeq([x \in 1..Len(pairs) |-> x], LAMBDA x : verdict(x) = "pass")
        joined_rows == [x \in 1..Len(kept) |->
                          Merge(command.table_name, command.join_table,
                                left_rows[pairs[kept[x]][1]],
                                right_rows[pairs[kept[x]][2]])]
    IN IF \E x \in 1..Len(pairs) : verdict(x) = "raise"
       THEN Done(db, QueryResult(FALSE, "Failed to join: unpack", NoData, 0))
       ELSE Done(db, QueryResult(TRUE, "Selected rows from JOIN",
                                 Data(ProjectAll(joined_rows, command.columns)), 0))

\* _execute_select
ExecuteSelect(db, command) ==
    IF Missing(db, command.table_name)
    THEN Done(db, QueryResult(FALSE, "Failed to select: Table does not exist", NoData, 0))
    ELSE IF command.join_table # "" THEN ExecuteJoinSelect(db, command)
    ELSE Done(db, QueryResult(TRUE, "Selected rows",
                Data(ProjectAll(find_rows(db[command.table_name], command.where_conditions),
                                command.columns)), 0))

\* _execute_update
ExecuteUpdate(db, command) ==
    IF Missing(db, command.table_name)
    THEN Done(db, QueryResult(FALSE, "Failed to update: Table does not exist", NoData, 0))
    ELSE LET out == update_rows(db[command.table_name], command.where_conditions,
                                command.set_values) IN
         IF out.err # ""
         THEN Done([db EXCEPT ![command.table_name] = out.table],
                   QueryResult(FALSE, "Failed to update: " \o out.err, NoData, 0))
         ELSE Done([db EXCEPT ![command.table_name] = out.table],
                   QueryResult(TRUE, "Updated rows", NoData, out.ret))

\* _execute_delete
ExecuteDelete(db, command) ==
    IF Missing(db, command.table_name)
    THEN Done(db, QueryResult(FALSE, "Failed to delete: Table does not exist", NoData, 0))
    ELSE LET out == delete_rows(db[command.table_name], command.where_conditions) IN
         Done([db EXCEPT ![command.table_name] = out.table],
              QueryResult(TRUE, "Deleted rows", NoData, out.ret))

\* DatabaseEngine.execute after the parse: the except clause, then the
\* isinstance chain
Dispatch(db, parsed) ==
    IF parsed.err # "" THEN Done(db, QueryResult(FALSE, "Error: " \o parsed.err, NoData, 0))
    ELSE IF parsed.cmd.op = "create" THEN ExecuteCreateTable(db, parsed.cmd)
    ELSE IF parsed.cmd.op = "insert" THEN ExecuteInsert(db, parsed.cmd)
    ELSE IF parsed.cmd.op = "select" THEN ExecuteSelect(db, parsed.cmd)
    ELSE IF parsed.cmd.op = "update" THEN ExecuteUpdate(db, parsed.cmd)
    ELSE ExecuteDelete(db, parsed.cmd)

\* DatabaseEngine.execute: the one outcome of the statement
Execute(db, st) ==
    CHOOSE d \in {Dispatch(db, parsed) : parsed \in {Parse(st)}} : TRUE

----------------------------------------------------------------------------
(* The statements the model submits                                        *)

Lit(k) == <<Digits[k + 1]>>

LitNULL == <<"N","U","L","L">>

LitText == <<"'","a","'">>

NumLits == {Lit(1), Lit(2)}

cId == <<"id">>

cU == <<"u">>

cZz == <<"zz">>

Def(name, rest) == [name |-> name, rest |-> rest]

\* key = lit, joined to the conjunct before it (if any) by AND
Conj(key, lit) == [k |-> key, lit |-> lit, eq |-> TRUE, and |-> tAND]

\* the same joined by the keyword in lower case
ConjLower(key, lit) == [k |-> key, lit |-> lit, eq |-> TRUE, and |-> <<"a","n","d">>]

NoEq(key) == [k |-> key, lit |-> <<>>, eq |-> FALSE, and |-> tAND]

\* CREATE TABLE t (id INT PRIMARY_KEY, u INT UNIQUE)
CreateKeyed ==
    [kind |-> "create", table |-> "t",
     defs |-> <<Def(cId, <<tINT, tPRIMARY_KEY>>), Def(cU, <<tINT, tUNIQUE>>)>>]

\* CREATE TABLE t (id BLOB)
CreateBadType ==
    [kind |-> "create", table |-> "t", defs |-> <<Def(cId, <<<<"B","L","O","B">>>>)>>]

CreateStmts == {CreateKeyed, CreateBadType}

InsertStmt(columns, values) ==
    [kind |-> "insert", table |-> "t", columns |-> columns, values |-> values]

InsertStmts ==
    {InsertStmt(<<cId>>, <<l>>) : l \in NumLits \cup {LitNULL, LitText}}
    \cup {InsertStmt(<<cId, cU>>, <<l, Lit(1)>>) : l \in NumLits}
    \cup {InsertStmt(<<cU>>, <<Lit(1)>>),
          InsertStmt(<<cZz>>, <<Lit(1)>>),
          InsertStmt(<<cId, cU>>, <<Lit(1)>>)}

Wheres == {<<>>, <<Conj(cId, Lit(1))>>, <<Conj(cU, Lit(1))>>}

Sets ==
    {<<Conj(cId, l)>> : l \in NumLits \cup {LitText}}
    \cup {<<Conj(cU, l)>> : l \in {Lit(1), LitNULL}}
    \cup {<<Conj(cZz, Lit(1))>>,
          <<Conj(cId, Lit(2)), Conj(cU, Lit(1))>>,
          <<Conj(cU, Lit(1)), Conj(cId, Lit(2))>>}

UpdateStmts ==
    {[kind |-> "update", table |-> "t", set |-> s, where |-> w] : s \in Sets, w \in Wheres}

DeleteStmts ==
    {[kind |-> "delete", table |-> "t", where |-> w] : w \in Wheres \cup {<<NoEq(cId)>>}}

SelectStmt(table, columns, where, join_table, on) ==
    [kind |-> "select", table |-> table, columns |-> columns, where |-> where,
     join_table |-> join_table, on |-> on]

SelectStmts ==
    {SelectStmt("t", <<Star>>, <<>>, "", <<>>),
     SelectStmt("t", <<Star>>, <<Conj(cId, Lit(1))>>, "", <<>>),
     SelectStmt("t", <<cId, cZz>>, <<>>, "", <<>>)}

OtherStmts == {[kind |-> "other"]}

----------------------------------------------------------------------------
(* The engine under the loop of SimpleREPL.run: at pc = "input" the loop   *)
(* waits for a statement, at pc = "display" execute has returned result.   *)

NoResult == QueryResult(TRUE, "", NoData, 0)

NoStmt == [kind |-> "none"]

NoTables == [n \in {} |-> 0]

Init ==
    /\ tables = NoTables
    /\ pc = "input"
    /\ result = NoResult
    /\ stmt = NoStmt
    /\ pre = NoTables

\* result = self.engine.execute(command): tables is engine.database.tables.
\* stmt and pre record the statement and the tables before the call
Step(st) ==
    \E d \in {Execute(tables, st)} :
        /\ pc' = "display"
        /\ tables' = d.db
        /\ result' = d.result
        /\ stmt' = st
        /\ pre' = tables

\* the loop is reading a statement
AtInput == pc = "input"

\* the identifier counter stays within the bound of the model
CanInsert(st) ==
    st.table \in DOMAIN tables => tables[st.table].next_row_id <= MaxInserts

CreateTable == \E st \in CreateStmts : AtInput /\ Step(st)

Insert == \E st \in InsertStmts : AtInput /\ CanInsert(st) /\ Step(st)

Select == \E st \in SelectStmts : AtInput /\ Step(st)

Update == \E st \in UpdateStmts : AtInput /\ Step(st)

Delete == \E st \in DeleteStmts : AtInput /\ Step(st)

Unsupported == \E st \in OtherStmts : AtInput /\ Step(st)

\* self._display_result(result): the loop drops the result and reads again
Display ==
    /\ pc = "display"
    /\ pc' = "input"
    /\ result' = NoResult
    /\ stmt' = NoStmt
    /\ pre' = NoTables
    /\ UNCHANGED tables

Next == CreateTable \/ Insert \/ Select \/ Update \/ Delete \/ Unsupported \/ Display

Spec == Init /\ [][Next]_vars

----------------------------------------------------------------------------
(* A table whose schema has a column named like the internal identifier    *)

cV == <<"v">>

\* CREATE TABLE t (_row_id INT, v INT)
CreateShadow ==
    [kind |-> "create", table |-> "t",
     defs |-> <<Def(RowIdKey, <<tINT>>), Def(cV, <<tINT>>)>>]

ShadowInsertStmts ==
    {InsertStmt(<<cV>>, <<l>>) : l \in NumLits}
    \cup {InsertStmt(<<RowIdKey, cV>>, <<l1, l2>>) : l1 \in NumLits, l2 \in NumLits}
    \cup {InsertStmt(<<cV>>, <<LitText>>)}

ShadowWheres == {<<>>, <<Conj(cV, Lit(1))>>, <<Conj(RowIdKey, Lit(1))>>}

ShadowSets ==
    {<<Conj(RowIdKey, l)>> : l \in NumLits} \cup {<<Conj(cV, Lit(2))>>, <<Conj(cV, LitText)>>}

ShadowUpdateStmts ==
    {[kind |-> "update", table |-> "t", set |-> s, where |-> w] :
        s \in ShadowSets, w \in ShadowWheres}

ShadowDeleteStmts ==
    {[kind |-> "delete", table |-> "t", where |-> w] : w \in ShadowWheres}

ShadowCreate == AtInput /\ Step(CreateShadow)

ShadowInsert == \E st \in ShadowInsertStmts : AtInput /\ CanInsert(st) /\ Step(st)

ShadowUpdate == \E st \in ShadowUpdateStmts : AtInput /\ Step(st)

ShadowDelete == \E st \in ShadowDeleteStmts : AtInput /\ Step(st)

NextShadow == ShadowCreate \/ ShadowInsert \/ ShadowUpdate \/ ShadowDelete \/ Display

SpecShadow == Init /\ [][NextShadow]_vars

----------------------------------------------------------------------------
(* posts and users, and the joins of the two                               *)

cTitle == <<"title">>

cUserId == <<"user_id">>

cName == <<"name">>

\* CREATE TABLE users (id INT PRIMARY_KEY, name TEXT)
CreateUsers ==
    [kind |-> "create", table |-> "users",
     defs |-> <<Def(cId, <<tINT, tPRIMARY_KEY>>), Def(cName, <<tTEXT>>)>>]

\* CREATE TABLE posts (id INT PRIMARY_KEY, title TEXT, user_id INT)
CreatePosts ==
    [kind |-> "create", table |-> "posts",
     defs |-> <<Def(cId, <<tINT, tPRIMARY_KEY>>), Def(cTitle, <<tTEXT>>),
                Def(cUserId, <<tINT>>)>>]

JoinInsertStmts ==
    {[kind |-> "insert", table |-> "users", columns |-> <<cId, cName>>,
      values |-> <<l, LitText>>] : l \in NumLits}
    \cup {[kind |-> "insert", table |-> "posts", columns |-> <<cId, cTitle, cUserId>>,
           values |-> <<l1, LitText, l2>>] : l1 \in NumLits, l2 \in NumLits}

\* SELECT * FROM posts JOIN users ON posts.user_id = users.id
JoinOnColumns ==
    SelectStmt("posts", <<Star>>, <<>>, "users",
               <<Conj(<<"posts", "user_id">>, <<"u","s","e","r","s",".","i","d">>)>>)

\* SELECT * FROM posts JOIN users ON posts.user_id = 1
JoinOnLiteral ==
    SelectStmt("posts", <<Star>>, <<>>, "users", <<Conj(<<"posts", "user_id">>, Lit(1))>>)

\* SELECT * FROM <left> JOIN <right> ON <key> = <lit>
JoinOn(left, right, key, lit) == SelectStmt(left, <<Star>>, <<>>, right, <<Conj(key, lit)>>)

\* SELECT * FROM posts WHERE id = 1 JOIN users ON users.id = 1
JoinWhere ==
    SelectStmt("posts", <<Star>>, <<Conj(cId, Lit(1))>>, "users",
               <<Conj(<<"users", "id">>, Lit(1))>>)

\* joins on an unqualified key of both tables, of one table and of neither,
\* on a key qualified by the right table, and of a table with itself
JoinKeyStmts ==
    {JoinOn("posts", "users", cId, Lit(1)),
     JoinOn("posts", "users", cUserId, Lit(2)),
     JoinOn("posts", "users", cZz, Lit(1)),
     JoinOn("posts", "users", <<"users", "id">>, Lit(1)),
     JoinOn("users", "users", cZz, Lit(1)),
     JoinWhere}

JoinSelectStmts == {JoinOnColumns, JoinOnLiteral} \cup JoinKeyStmts

JoinCreate == \E st \in {CreateUsers, CreatePosts} : AtInput /\ Step(st)

JoinInsert == \E st \in JoinInsertStmts : AtInput /\ CanInsert(st) /\ Step(st)

\* SELECT title, zz FROM posts WHERE user_id = 1 and SELECT id, _row_id FROM posts
PostsSelectStmts ==
    {SelectStmt("posts", <<cTitle, cZz>>, <<Conj(cUserId, Lit(1))>>, "", <<>>),
     SelectStmt("posts", <<cId, RowIdKey>>, <<>>, "", <<>>)}

JoinSelect == \E st \in JoinSelectStmts : AtInput /\ Step(st)

PostsSelect == \E st \in PostsSelectStmts : AtInput /\ Step(st)

\* SelectCommand(table_name, ['*'], join_table = ...): a join with neither
\* join conditions nor WHERE. No statement parses to it (the select pattern
\* demands ON with a condition), so it is handed to _execute_select directly
CrossJoin(left, right) ==
    [op |-> "select", table_name |-> left, columns |-> <<Star>>,
     where_conditions |-> <<>>, join_table |-> right, join_conditions |-> <<>>]

CrossJoins == {CrossJoin("posts", "users"), CrossJoin("users", "posts")}

\* result = engine._execute_select(command)
JoinCommand ==
    \E command \in CrossJoins : \E d \in {ExecuteSelect(tables, command)} :
        /\ AtInput
        /\ pc' = "display"
        /\ tables' = d.db
        /\ result' = d.result
        /\ stmt' = [kind |-> "command", command |-> command]
        /\ pre' = tables

NextJoin ==
    JoinCreate \/ JoinInsert \/ JoinSelect \/ PostsSelect \/ JoinCommand \/ Display

SpecJoin == Init /\ [][NextJoin]_vars

----------------------------------------------------------------------------
(* A table with a NOT NULL and a FLOAT column; statements with float       *)
(* literals and with keywords in lower case                                *)

cW == <<"w">>

cF == <<"f">>

LitFloat(k) == <<Digits[k + 1], ".", "0">>

LitNullLower == <<"n","u","l","l">>

\* CREATE TABLE t (id INT, w INT NOT NULL, f FLOAT)
CreateTyped ==
    [kind |-> "create", table |-> "t",
     defs |-> <<Def(cId, <<tINT>>), Def(cW, <<tINT, tNOT, tNULL>>), Def(cF, <<tFLOAT>>)>>]

\* create table t (id int, w int not null, f float)
CreateTypedLower ==
    [kind |-> "create", table |-> "t",
     defs |-> <<Def(cId, <<<<"i","n","t">>>>),
                Def(cW, <<<<"i","n","t">>, <<"n","o","t">>, LitNullLower>>),
                Def(cF, <<<<"f","l","o","a","t">>>>)>>]

TypedCreateStmts == {CreateTyped, CreateTypedLower}

TypedInsertStmts ==
    {InsertStmt(<<cId, cW, cF>>, <<Lit(1), Lit(1), Lit(1)>>),
     InsertStmt(<<cId, cW>>, <<Lit(2), Lit(2)>>),
     InsertStmt(<<cId, cW>>, <<Lit(1), Lit(2)>>),
     InsertStmt(<<cId>>, <<Lit(2)>>),
     InsertStmt(<<cId, cW>>, <<Lit(1), LitNULL>>),
     InsertStmt(<<cId, cW>>, <<Lit(1), LitNullLower>>)}

TypedWheres ==
    {<<>>,
     <<Conj(cId, Lit(1))>>,
     <<Conj(cId, LitFloat(1))>>,
     <<Conj(cId, Lit(1)), Conj(cW, Lit(1))>>,
     <<Conj(cId, Lit(1)), ConjLower(cW, Lit(1))>>}

TypedSets ==
    {<<Conj(cF, LitFloat(1))>>,
     <<Conj(cF, LitFloat(2))>>,
     <<Conj(cW, Lit(2))>>,
     <<Conj(cW, LitNULL)>>,
     <<Conj(cId, LitText)>>,
     <<Conj(cZz, Lit(1))>>,
     <<Conj(cF, LitFloat(2)), Conj(cId, LitText)>>}

TypedUpdateStmts ==
    {[kind |-> "update", table |-> "t", set |-> s, where |-> w] :
        s \in TypedSets, w \in TypedWheres}

TypedDeleteStmts ==
    {[kind |-> "delete", table |-> "t", where |-> w] : w \in TypedWheres}

TypedSelectStmts == {SelectStmt("t", <<Star>>, w, "", <<>>) : w \in TypedWheres}

TypedCreate == \E st \in TypedCreateStmts : AtInput /\ Step(st)

TypedInsert == \E st \in TypedInsertStmts : AtInput /\ CanInsert(st) /\ Step(st)

TypedSelect == \E st \in TypedSelectStmts : AtInput /\ Step(st)

TypedUpdate == \E st \in TypedUpdateStmts : AtInput /\ Step(st)

TypedDelete == \E st \in TypedDeleteStmts : AtInput /\ Step(st)

NextTyped ==
    TypedCreate \/ TypedInsert \/ TypedSelect \/ TypedUpdate \/ TypedDelete \/ Display

SpecTyped == Init /\ [][NextTyped]_vars

----------------------------------------------------------------------------
(* CREATE TABLE with column lists of several shapes                        *)

cX == <<"x">>

cY == <<"y">>

tKEY == <<"K","E","Y">>

SchemaDefs ==
    {<<Def(cX, <<tINT>>)>>,
     <<Def(cX, <<tINT, tNOT, tNULL>>)>>,
     <<Def(cX, <<tINT, tPRIMARY, tKEY>>)>>,
     <<Def(cX, <<tINT, tUNIQUE, tPRIMARY_KEY>>)>>,
     <<Def(cX, <<tINT, tPRIMARY_KEY, tUNIQUE>>), Def(cY, <<tTEXT, tNOT, tNULL, tUNIQUE>>)>>,
     <<Def(cX, <<tINT, tPRIMARY_KEY>>), Def(cX, <<tINT>>)>>,
     <<Def(cX, <<tINT>>), Def(cX, <<tINT, tUNIQUE>>)>>,
     <<Def(cX, <<>>)>>}

SchemaCreateStmts ==
    {[kind |-> "create", table |-> n, defs |-> ds] : n \in {"a", "b"}, ds \in SchemaDefs}

SchemaInsertStmts ==
    {[kind |-> "insert", table |-> n, columns |-> <<cX>>, values |-> <<Lit(1)>>] :
        n \in {"a", "b"}}

SchemaCreate == \E st \in SchemaCreateStmts : AtInput /\ Step(st)

SchemaInsert == \E st \in SchemaInsertStmts : AtInput /\ CanInsert(st) /\ Step(st)

NextSchema == SchemaCreate \/ SchemaInsert \/ Display

SpecSchema == Init /\ [][NextSchema]_vars

----------------------------------------------------------------------------
(* Key values freed and taken: the keyed table with three key values       *)

KeysLits == {Lit(1), Lit(2), Lit(3)}

KeysInsertStmts ==
    {InsertStmt(<<cId>>, <<l>>) : l \in KeysLits}
    \cup {InsertStmt(<<cId, cU>>, <<Lit(1), Lit(1)>>), InsertStmt(<<cId, cZz>>, <<Lit(3), Lit(1)>>)}

KeysWheres == {<<>>, <<Conj(cId, Lit(1))>>}

KeysSets == {<<Conj(cId, Lit(2))>>, <<Conj(cId, Lit(3))>>,
             <<Conj(cU, Lit(1))>>, <<Conj(cU, Lit(2))>>}

KeysUpdateStmts ==
    {[kind |-> "update", table |-> "t", set |-> s, where |-> w] :
        s \in KeysSets, w \in KeysWheres}

KeysDeleteStmts == {[kind |-> "delete", table |-> "t", where |-> w] : w \in KeysWheres}

KeysCreate == AtInput /\ Step(CreateKeyed)

KeysInsert == \E st \in KeysInsertStmts : AtInput /\ CanInsert(st) /\ Step(st)

KeysUpdate == \E st \in KeysUpdateStmts : AtInput /\ Step(st)

KeysDelete == \E st \in KeysDeleteStmts : AtInput /\ Step(st)

NextKeys == KeysCreate \/ KeysInsert \/ KeysUpdate \/ KeysDelete \/ Display

SpecKeys == Init /\ [][NextKeys]_vars

----------------------------------------------------------------------------
(* Properties                                                              *)

\* the columns of T declared PRIMARY_KEY or UNIQUE
KeyColumns(T) ==
    {T.columns[i].name : i \in {j \in 1..Len(T.columns) :
                                  T.columns[j].constraint \in {"PRIMARY_KEY", "UNIQUE"}}}

PrimaryColumns(T) ==
    {T.columns[i].name : i \in {j \in 1..Len(T.columns) :
                                  T.columns[j].constraint = "PRIMARY_KEY"}}

\* the identifiers of the live rows of T
LiveIds(T) == {T.rows[i][RowIdKey] : i \in 1..Len(T.rows)}

\* the statement just executed, and the table it names before and after
Executed(kind) == pc = "display" /\ stmt.kind = kind

OnTable == stmt.table \in DOMAIN pre /\ stmt.table \in DOMAIN tables

Before == pre[stmt.table]

After == tables[stmt.table]

\* a row satisfies a WHERE clause as written: every conjunct names a key of
\* the row whose value equals the literal
Satisfies(row, where) ==
    \A i \in 1..Len(where) :
        where[i].k \in DOMAIN row /\ PyEq(row[where[i].k], ParseValue(where[i].lit))

\* the value an INSERT or SET clause as written gives to a column
Supplied(ks, lits, key) ==
    ParseValue(lits[CHOOSE i \in 1..Len(ks) : ks[i] = key /\ \A j \in (i + 1)..Len(ks) : ks[j] # key])

\* C1: after any sequence of INSERT, UPDATE and DELETE statements, failed
\* ones included, no two live rows of a table hold equal non-null values
\* in a column declared PRIMARY_KEY or UNIQUE.
NoDuplicateKeyValues ==
    \A n \in DOMAIN tables : \A c \in KeyColumns(tables[n]) :
        \A i, j \in 1..Len(tables[n].rows) :
            (i # j /\ tables[n].rows[i][c].t # "null")
                => ~PyEq(tables[n].rows[i][c], tables[n].rows[j][c])

\* C2: after any operation, successful or failed, for every indexed column
\* the index entry of each live row's current (non-null) value contains the
\* row's identifier, and no index entry contains the identifier of a row
\* that is not live.
IndexesReflectRows ==
    \A n \in DOMAIN tables : \A c \in DOMAIN tables[n].indexes :
        LET T == tables[n]
            index == T.indexes[c]
        IN /\ \A i \in 1..Len(T.rows) :
                T.rows[i][c].t # "null"
                    => \E k \in 1..Len(IndexFind(index, T.rows[i][c])) :
                          IndexFind(index, T.rows[i][c])[k] = T.rows[i][RowIdKey]
           /\ \A key \in DOMAIN index : \A k \in 1..Len(index[key]) :
                index[key][k] \in LiveIds(T)

\* C3: in every reachable state no live row holds null in a PRIMARY_KEY
\* column, whichever columns the INSERT and UPDATE statements supplied.
NoNullPrimaryKey ==
    \A n \in DOMAIN tables : \A c \in PrimaryColumns(tables[n]) :
        \A i \in 1..Len(tables[n].rows) : tables[n].rows[i][c].t # "null"

\* C4: for any accepted schema, row identifiers are unique within the table
\* and below the counter (none is assigned again), a successful INSERT
\* stores a row whose identifier is the counter's value and advances the
\* counter by one (so the k-th gets k), and a failed INSERT consumes none.
RowIdsUniqueAndSequential ==
    /\ \A n \in DOMAIN tables :
          /\ \A i, j \in 1..Len(tables[n].rows) :
                i # j => tables[n].rows[i][RowIdKey] # tables[n].rows[j][RowIdKey]
          /\ \A i \in 1..Len(tables[n].rows) :
                /\ tables[n].rows[i][RowIdKey].t = "int"
                /\ tables[n].rows[i][RowIdKey].n \in 1..(tables[n].next_row_id - 1)
    /\ (Executed("insert") /\ OnTable /\ result.success)
          => /\ Len(After.rows) = Len(Before.rows) + 1
             /\ After.rows[Len(After.rows)][RowIdKey] = IntV(Before.next_row_id)
             /\ After.next_row_id = Before.next_row_id + 1
    /\ (Executed("insert") /\ OnTable /\ ~result.success)
          => After.next_row_id = Before.next_row_id

\* the merged rows a join of posts and users on posts.user_id = users.id
\* has to return for one post
AuthorsOf(post, users) ==
    {u \in 1..Len(users) : PyEq(users[u][cId], post[cUserId])}

JoinKeys ==
    {<<"posts", "id">>, <<"posts", "title">>, <<"posts", "user_id">>,
     <<"users", "id">>, <<"users", "name">>}

IsMergeOf(row, post, user) ==
    /\ DOMAIN row = JoinKeys
    /\ row[<<"posts", "id">>] = post[cId]
    /\ row[<<"posts", "title">>] = post[cTitle]
    /\ row[<<"posts", "user_id">>] = post[cUserId]
    /\ row[<<"users", "id">>] = user[cId]
    /\ row[<<"users", "name">>] = user[cName]

\* C5: SELECT * FROM posts JOIN users ON posts.user_id = users.id returns
\* exactly one merged row for each post whose user_id is the id of a users
\* row and none for the other posts, each row with the keys posts.id,
\* posts.title, posts.user_id, users.id, users.name.
JoinOnColumnsReturnsAuthoredPosts ==
    (pc = "display" /\ stmt = JoinOnColumns
        /\ "posts" \in DOMAIN tables /\ "users" \in DOMAIN tables)
    => LET posts == tables["posts"].rows
           users == tables["users"].rows
           data == result.data.rows
       IN /\ result.success
          /\ result.data.some
          /\ \A x \in 1..Len(data) :
                \E p \in 1..Len(posts) : \E u \in AuthorsOf(posts[p], users) :
                    IsMergeOf(data[x], posts[p], users[u])
          /\ \A p \in 1..Len(posts) :
                Cardinality({x \in 1..Len(data) :
                               /\ <<"posts", "id">> \in DOMAIN data[x]
                               /\ data[x][<<"posts", "id">>] = posts[p][cId]})
                    = IF AuthorsOf(posts[p], users) # {} THEN 1 ELSE 0

\* SELECT * FROM <table> with no WHERE and no JOIN
IsSelectAll == Executed("select") /\ stmt.columns = <<Star>> /\ stmt.where = <<>>
                  /\ stmt.join_table = ""

\* C6: an INSERT stores the values it supplies and null for every omitted
\* schema column, and SELECT * with no WHERE then returns, for each row,
\* exactly the schema columns with the stored values: no key for the
\* internal row identifier.
SelectAllReturnsInsertedValues ==
    /\ (Executed("insert") /\ OnTable /\ result.success)
          => LET row == After.rows[Len(After.rows)] IN
             \A c \in ColNames(After) :
                row[c] = IF \E i \in 1..Len(stmt.columns) : stmt.columns[i] = c
                         THEN Supplied(stmt.columns, stmt.values, c)
                         ELSE Null
    /\ (IsSelectAll /\ OnTable)
          => /\ result.success
             /\ Len(result.data.rows) = Len(After.rows)
             /\ \A i \in 1..Len(After.rows) :
                   /\ DOMAIN result.data.rows[i] = ColNames(After)
                   /\ \A c \in ColNames(After) : result.data.rows[i][c] = After.rows[i][c]

\* C7: an UPDATE, whatever its SET clause and the schema, leaves the number
\* and order of the live rows and the internal identifier of each unchanged.
UpdateKeepsIdentifiers ==
    (Executed("update") /\ OnTable)
    => /\ Len(After.rows) = Len(Before.rows)
       /\ \A i \in 1..Len(Before.rows) : After.rows[i][RowIdKey] = Before.rows[i][RowIdKey]

\* C8: a DELETE removes exactly the rows that satisfy its condition (all of
\* them without WHERE): the rows left are the others, unchanged and in
\* their previous order, and the reported count is the number removed.
DeleteRemovesExactlyMatching ==
    (Executed("delete") /\ result.success)
    => /\ After.rows = SelectSeq(Before.rows, LAMBDA r : ~Satisfies(r, stmt.where))
       /\ result.affected_rows = Len(Before.rows) - Len(After.rows)

\* a DELETE with a WHERE removed some rows, not the first one, and kept others
DeletedSomeKeptOthers ==
    /\ Executed("delete") /\ result.success /\ stmt.where # <<>>
    /\ result.affected_rows >= 1
    /\ After.rows # <<>>
    /\ ~Satisfies(Before.rows[1], stmt.where)

\* C9: an INSERT reported as failed leaves the table exactly as it was:
\* same rows, same index contents, same next row identifier.
FailedInsertLeavesTable ==
    (Executed("insert") /\ ~result.success) => tables = pre

\* an INSERT was rejected for a duplicate primary key on a table with rows
InsertRejectedAsDuplicate ==
    /\ Executed("insert") /\ ~result.success
    /\ result.message = "Failed to insert: Primary key violation"
    /\ OnTable /\ Before.rows # <<>> /\ Before.indexes[cId] # EmptyIndex

\* the failures of a statement as written, whatever the engine reports
FailsToParse ==
    \/ stmt.kind = "other"
    \/ stmt.kind = "create" /\ \E i \in 1..Len(stmt.defs) :
          \/ stmt.defs[i].rest = <<>>
          \/ Upper(stmt.defs[i].rest[1]) \notin {tINT, tTEXT, tFLOAT}
    \/ stmt.kind = "insert" /\ Len(stmt.columns) # Len(stmt.values)
    \/ stmt.kind \in {"update", "delete"} /\ \E i \in 1..Len(stmt.where) : ~stmt.where[i].eq

FailsOnSchema ==
    \/ stmt.kind = "create" /\ stmt.table \in DOMAIN pre
    \/ stmt.kind \in {"insert", "select", "update", "delete"} /\ stmt.table \notin DOMAIN pre
    \/ stmt.kind = "insert" /\ stmt.table \in DOMAIN pre
          /\ \E i \in 1..Len(stmt.columns) : stmt.columns[i] \notin ColNames(Before)

\* C10: execute returns a result for every statement; a parse or schema
\* failure gives success = false, every failure carries a message and
\* no data, and the engine goes on to execute statements correctly: an
\* INSERT it accepts never stores a primary-key value a live row holds.
FailuresReportedAndEngineStaysCorrect ==
    pc = "display"
    => /\ (FailsToParse \/ FailsOnSchema) => ~result.success
       /\ ~result.success => (result.message # "" /\ ~result.data.some)
       /\ (stmt.kind = "insert" /\ result.success)
             => \A c \in PrimaryColumns(Before) : \A i \in 1..Len(Before.rows) :
                   Before.rows[i][c].t # "null"
                       => ~PyEq(Before.rows[i][c], After.rows[Len(After.rows)][c])

\* the constraint rejections of update_rows, as _execute_update reports them
ConstraintRejections ==
    {"Failed to update: Primary key violation",
     "Failed to update: Unique constraint violation",
     "Failed to update: Primary key cannot be null"}

\* C11: an UPDATE whose only SET column is rejected by a primary-key or
\* unique check leaves the rows and the indexes of the table exactly as
\* they were before the statement.
RejectedSingleColumnUpdateLeavesTable ==
    (Executed("update") /\ ~result.success /\ Len(stmt.set) = 1
        /\ result.message \in ConstraintRejections)
    => tables = pre

\* the columns of T that do not admit null and are no primary key: those
\* declared NOT NULL
NotNullColumns(T) ==
    {T.columns[i].name : i \in {j \in 1..Len(T.columns) :
                                  /\ ~T.columns[j].nullable
                                  /\ T.columns[j].constraint # "PRIMARY_KEY"}}

\* C12: after any sequence of INSERT and UPDATE statements no live row
\* holds null in a column declared NOT NULL.
NoNullInNotNullColumn ==
    \A n \in DOMAIN tables : \A c \in NotNullColumns(tables[n]) :
        \A i \in 1..Len(tables[n].rows) : tables[n].rows[i][c].t # "null"

\* the keys of a merged row that come from table T under the name n
Prefixed(n, T) == {<<n>> \o c : c \in ColNames(T)}

\* C13: a join of A (n rows) with B (m rows) with no join condition and no
\* WHERE returns exactly n * m merged rows, one per (left row, right row)
\* pair in left-major order: row (i - 1) * m + j merges the i-th row of A
\* with the j-th row of B.
CrossJoinReturnsAllPairs ==
    (Executed("command")
        /\ stmt.command.table_name \in DOMAIN tables
        /\ stmt.command.join_table \in DOMAIN tables)
    => LET A == tables[stmt.command.table_name]
           B == tables[stmt.command.join_table]
           n == Len(A.rows)
           m == Len(B.rows)
           data == result.data.rows
       IN /\ result.success
          /\ result.data.some
          /\ Len(data) = n * m
          /\ \A i \in 1..n : \A j \in 1..m :
                LET row == data[(i - 1) * m + j] IN
                /\ DOMAIN row = Prefixed(A.name, A) \cup Prefixed(B.name, B)
                /\ \A c \in ColNames(A) : row[<<A.name>> \o c] = A.rows[i][c]
                /\ \A c \in ColNames(B) : row[<<B.name>> \o c] = B.rows[j][c]

\* a join without conditions of two tables of two rows each returned rows
CrossJoinOfTwoByTwo ==
    /\ Executed("command")
    /\ stmt.command.table_name \in DOMAIN tables
    /\ stmt.command.join_table \in DOMAIN tables
    /\ Len(tables[stmt.command.table_name].rows) = 2
    /\ Len(tables[stmt.command.join_table].rows) = 2
    /\ Len(result.data.rows) = 4

\* every conjunct of a clause is joined by the keyword as the parser knows it
JoinedByAND(clause) == \A i \in 1..Len(clause) : clause[i].and = tAND

\* the values of a row but for the column c
SameBut(row1, row2, c) ==
    DOMAIN row1 = DOMAIN row2 /\ \A key \in DOMAIN row1 \ {c} : row1[key] = row2[key]

\* C14: after a successful UPDATE t SET c = v WHERE cond every row that
\* matched cond before the statement holds v in column c, every other
\* column of those rows and every other row is unchanged, and affected_rows
\* is the number of rows that matched.
UpdateSetsValueOnMatching ==
    (Executed("update") /\ result.success /\ Len(stmt.set) = 1 /\ JoinedByAND(stmt.where))
    => LET c == stmt.set[1].k
           v == ParseValue(stmt.set[1].lit)
           matched == {p \in 1..Len(Before.rows) : Satisfies(Before.rows[p], stmt.where)}
       IN /\ Len(After.rows) = Len(Before.rows)
          /\ \A p \in matched :
                After.rows[p][c] = v /\ SameBut(After.rows[p], Before.rows[p], c)
          /\ \A p \in (1..Len(Before.rows)) \ matched : After.rows[p] = Before.rows[p]
          /\ result.affected_rows = Cardinality(matched)

\* C15: in every table created through CREATE TABLE an index exists for
\* column c if and only if the constraint the schema records for c is
\* PRIMARY_KEY or UNIQUE.
IndexIffKeyConstraint ==
    \A n \in DOMAIN tables :
        /\ DOMAIN tables[n].indexes \subseteq ColNames(tables[n])
        /\ \A c \in ColNames(tables[n]) :
              c \in DOMAIN tables[n].indexes
                  <=> ColOf(tables[n], c).constraint \in {"PRIMARY_KEY", "UNIQUE"}

\* C16: CREATE TABLE with a name already registered fails (success = false)
\* and leaves the registered tables, their schemas, rows and indexes, as
\* they were.
CreateExistingTableFails ==
    (Executed("create") /\ stmt.table \in DOMAIN pre)
    => ~result.success /\ tables = pre

\* a well-formed CREATE TABLE with two columns was refused for the name of
\* a table with one column and a row
CreateRefusedForExistingName ==
    /\ Executed("create") /\ Len(stmt.defs) = 2
    /\ stmt.table \in DOMAIN pre
    /\ Len(pre[stmt.table].columns) = 1 /\ pre[stmt.table].rows # <<>>
    /\ result.message = "Failed to create table: Table already exists"

\* C17: affected_rows is 1 for a successful INSERT, the number of rows that
\* matched for a successful UPDATE, the number of rows removed for a
\* successful DELETE, and 0 for every SELECT, every CREATE TABLE and every
\* failed statement.
AffectedRowsCounts ==
    pc = "display"
    => /\ ~result.success => result.affected_rows = 0
       /\ stmt.kind \in {"select", "create", "other"} => result.affected_rows = 0
       /\ (stmt.kind = "insert" /\ result.success) => result.affected_rows = 1
       /\ (stmt.kind = "update" /\ result.success)
             => result.affected_rows =
                   Cardinality({p \in 1..Len(Before.rows) :
                                  Satisfies(Before.rows[p], stmt.where)})
       /\ (stmt.kind = "delete" /\ result.success)
             => result.affected_rows = Len(Before.rows) - Len(After.rows)

\* a successful UPDATE matched two rows of three and changed none of them
UpdateMatchedTwoUnchanged ==
    /\ Executed("update") /\ result.success /\ result.affected_rows = 2
    /\ Len(Before.rows) = 3 /\ tables = pre

\* C18: find returns a row only when, for every condition, the row's value
\* has the same type and the same content as the condition value (a float
\* 1.0 does not match a stored integer 1), and a condition of another type
\* raises no error: the SELECT succeeds.
FindMatchesSameTypeOnly ==
    (Executed("select") /\ OnTable /\ stmt.columns = <<Star>> /\ stmt.join_table = ""
       /\ JoinedByAND(stmt.where))
    => /\ result.success
       /\ \A x \in 1..Len(result.data.rows) : \A i \in 1..Len(stmt.where) :
             /\ stmt.where[i].k \in DOMAIN result.data.rows[x]
             /\ result.data.rows[x][stmt.where[i].k] = ParseValue(stmt.where[i].lit)

\* a literal with the keyword NULL in upper case
UpperNull(lit) == IF Upper(lit) = LitNULL THEN LitNULL ELSE lit

\* a clause with the keywords AND and NULL in upper case
UpperClause(clause) ==
    [i \in 1..Len(clause) |->
        [clause[i] EXCEPT !.lit = UpperNull(@),
                          !.and = IF Upper(@) = tAND THEN tAND ELSE @]]

\* a statement as written with its keywords in upper case: the type and
\* constraint tokens of a column list, NULL among the values, AND and NULL
\* in the SET and WHERE clauses
UpperKeywords(st) ==
    IF st.kind = "create"
    THEN [st EXCEPT !.defs = [i \in 1..Len(st.defs) |->
                                [st.defs[i] EXCEPT !.rest = [j \in 1..Len(@) |-> Upper(@[j])]]]]
    ELSE IF st.kind = "insert"
    THEN [st EXCEPT !.values = [i \in 1..Len(@) |-> UpperNull(@[i])]]
    ELSE IF st.kind = "select" THEN [st EXCEPT !.where = UpperClause(@)]
    ELSE IF st.kind = "update"
    THEN [st EXCEPT !.set = UpperClause(@), !.where = UpperClause(@)]
    ELSE IF st.kind = "delete" THEN [st EXCEPT !.where = UpperClause(@)]
    ELSE st

\* C19: parsing is insensitive to the letter case of the keywords: a
\* statement parses to the same command as the statement with its type and
\* constraint tokens, NULL and AND written in upper case.
ParseIgnoresKeywordCase ==
    pc = "display" => Parse(stmt) = Parse(UpperKeywords(stmt))

\* C20: an UPDATE that fails because a SET column is unknown or a SET value
\* has the wrong type for its column has changed no row and no index of any
\* table, however many rows matched its WHERE clause.
InvalidUpdateMutatesNothing ==
    (Executed("update") /\ ~result.success
       /\ result.message \in {"Failed to update: Unknown column",
                              "Failed to update: Invalid value for column"})
    => tables = pre

\* an UPDATE with two SET columns, the second of the wrong type, was
\* rejected on a table where two rows matched
InvalidUpdateOfTwoMatched ==
    /\ Executed("update") /\ ~result.success /\ OnTable
    /\ result.message = "Failed to update: Invalid value for column"
    /\ Len(stmt.set) = 2
    /\ Cardinality({p \in 1..Len(Before.rows) : Satisfies(Before.rows[p], stmt.where)}) >= 2

\* C21: when a primary-key or unique check rejects an UPDATE at one of the
\* rows it matched, the statement is reported as failed with affected_rows
\* 0, the matched rows before the rejected one hold the new values of the
\* SET clause, the rows after it and the unmatched rows are unchanged, and
\* the rejected row does not hold the value that another row holds.
RejectedUpdateKeepsEarlierRows ==
    (Executed("update") /\ OnTable /\ JoinedByAND(stmt.where)
        /\ result.message \in {"Failed to update: Primary key violation",
                               "Failed to update: Unique constraint violation"})
    => LET matched == {p \in 1..Len(Before.rows) : Satisfies(Before.rows[p], stmt.where)}
           new(i) == ParseValue(stmt.set[i].lit)
           set == {stmt.set[i].k : i \in 1..Len(stmt.set)}
       IN /\ ~result.success
          /\ result.affected_rows = 0
          /\ Len(After.rows) = Len(Before.rows)
          /\ \E k \in matched :
                /\ \A p \in matched :
                      p < k => /\ \A i \in 1..Len(stmt.set) :
                                     After.rows[p][stmt.set[i].k] = new(i)
                               /\ \A c \in DOMAIN Before.rows[p] \ set :
                                     After.rows[p][c] = Before.rows[p][c]
                /\ \A p \in 1..Len(Before.rows) :
                      (p > k \/ p \notin matched) => After.rows[p] = Before.rows[p]
                /\ \E i \in 1..Len(stmt.set) :
                      /\ stmt.set[i].k \in KeyColumns(Before)
                      /\ After.rows[k][stmt.set[i].k] # new(i)
                      /\ \E q \in (1..Len(After.rows)) \ {k} :
                            After.rows[q][stmt.set[i].k] = new(i)

\* an UPDATE of two matched rows was rejected at the second: the first row
\* holds the new value
UpdateRejectedAtSecondRow ==
    /\ Executed("update") /\ OnTable /\ ~result.success /\ result.affected_rows = 0
    /\ result.message = "Failed to update: Unique constraint violation"
    /\ stmt.where = <<>> /\ Len(stmt.set) = 1 /\ Len(Before.rows) >= 2
    /\ Before.rows[1][stmt.set[1].k] = Null
    /\ After.rows[1][stmt.set[1].k] = ParseValue(stmt.set[1].lit)
    /\ After.rows[2] = Before.rows[2]

UpdateOfNoRowSucceeds ==
    (Executed("update") /\ stmt.table \in DOMAIN pre /\ JoinedByAND(stmt.where)
        /\ \A p \in 1..Len(Before.rows) : ~Satisfies(Before.rows[p], stmt.where))
    => /\ result.success
       /\ result.affected_rows = 0
       /\ tables = pre

\* an UPDATE naming an unknown column, or giving a text to an INT column,
\* succeeded on a table with rows, none of them matched
InvalidUpdateOfNoRowAccepted ==
    /\ Executed("update") /\ OnTable /\ result.success /\ result.affected_rows = 0
    /\ Len(Before.rows) >= 1 /\ stmt.where # <<>>
    /\ \/ \E i \in 1..Len(stmt.set) : stmt.set[i].k \notin ColNames(Before)
       \/ \E i \in 1..Len(stmt.set) :
             /\ stmt.set[i].k \in ColNames(Before)
             /\ ~validate_value(ColOf(Before, stmt.set[i].k), ParseValue(stmt.set[i].lit))

\* C22: a successful INSERT leaves the rows of the table as they were and
\* appends exactly one row, which has every schema column as a key, with
\* the supplied value for each supplied column and null for each omitted
\* one; an INSERT naming a column that is not in the schema is rejected and
\* leaves every table as it was.
InsertAppendsFullRow ==
    (Executed("insert") /\ OnTable)
    => /\ result.success
          => /\ Len(After.rows) = Len(Before.rows) + 1
             /\ SubSeq(After.rows, 1, Len(Before.rows)) = Before.rows
             /\ LET row == After.rows[Len(After.rows)] IN
                /\ ColNames(After) \subseteq DOMAIN row
                /\ \A c \in ColNames(After) :
                      row[c] = IF \E i \in 1..Len(stmt.columns) : stmt.columns[i] = c
                               THEN Supplied(stmt.columns, stmt.values, c)
                               ELSE Null
       /\ (\E i \in 1..Len(stmt.columns) : stmt.columns[i] \notin ColNames(Before))
          => ~result.success /\ tables = pre

\* an INSERT that left a column out was accepted on a table with a row,
\* and the new row holds null in the column
InsertedWithOmittedColumn ==
    /\ Executed("insert") /\ OnTable /\ result.success
    /\ Len(Before.rows) >= 1
    /\ \E c \in ColNames(After) :
          /\ \A i \in 1..Len(stmt.columns) : stmt.columns[i] # c
          /\ After.rows[Len(After.rows)][c] = Null

\* a join statement on two registered tables, returning every column
IsJoin ==
    /\ Executed("select") /\ stmt.join_table # "" /\ stmt.columns = <<Star>>
    /\ stmt.table \in DOMAIN tables /\ stmt.join_table \in DOMAIN tables
    /\ JoinedByAND(stmt.on) /\ JoinedByAND(stmt.where)
    /\ \A i \in 1..Len(stmt.on) : Len(stmt.on[i].k) <= 2
    /\ \A i \in 1..Len(stmt.where) : Len(stmt.where[i].k) <= 2

\* the field of a row, null when the row has none of the name
FieldOf(row, name) == IF <<name>> \in DOMAIN row THEN row[<<name>>] ELSE Null

\* a condition key = v as written disqualifies the pair (l, r) of a row of
\* the table named L and a row of the table named R
Disqualifies(conj, L, R, l, r) ==
    LET v == ParseValue(conj.lit)
        key == conj.k
    IN IF Len(key) = 1
       THEN \/ key \in DOMAIN l /\ ~PyEq(l[key], v)
            \/ key \in DOMAIN r /\ ~PyEq(r[key], v)
       ELSE IF key[1] = L THEN ~PyEq(FieldOf(l, key[2]), v)
       ELSE IF key[1] = R THEN ~PyEq(FieldOf(r, key[2]), v)
       ELSE FALSE

\* the pairs <<i, j>> of row positions that the ON and WHERE clauses of the
\* join statement leave, in left-major order
Survivors ==
    LET A == tables[stmt.table].rows
        B == tables[stmt.join_table].rows
        conds == stmt.on \o stmt.where
    IN SelectSeq(Pairs(Len(A), Len(B)),
                 LAMBDA pr : \A i \in 1..Len(conds) :
                    ~Disqualifies(conds[i], stmt.table, stmt.join_table,
                                  A[pr[1]], B[pr[2]]))

\* C23: for every surviving pair of a join of L and R, whatever two table
\* names the statement gives, the merged row has exactly the keys L.c for
\* the columns c of L, with the left row's values, and R.c for the columns
\* c of R, with the right row's values: no key for the internal identifier.
JoinMergesBothRows ==
    IsJoin
    => LET A == tables[stmt.table]
           B == tables[stmt.join_table]
           data == result.data.rows
       IN /\ result.success
          /\ Len(data) = Len(Survivors)
          /\ \A x \in 1..Len(Survivors) :
                /\ DOMAIN data[x] = Prefixed(stmt.table, A) \cup Prefixed(stmt.join_table, B)
                /\ \A c \in ColNames(A) :
                      data[x][<<stmt.table>> \o c] = A.rows[Survivors[x][1]][c]
                /\ \A c \in ColNames(B) :
                      data[x][<<stmt.join_table>> \o c] = B.rows[Survivors[x][2]][c]

\* C24: a join of two different tables returns, in left-major order, the
\* merged rows of exactly the pairs that no condition of its ON and WHERE
\* clauses disqualifies: an unqualified key col = v disqualifies a pair
\* when a row of the pair has a field col with a value other than v (a key
\* that is a field of neither row disqualifies none), a key T.col = v when
\* the row of table T does not hold v in col.
JoinKeepsPairsNotDisqualified ==
    (IsJoin /\ stmt.table # stmt.join_table)
    => LET A == tables[stmt.table].rows
           B == tables[stmt.join_table].rows
       IN /\ result.success
          /\ result.data.rows =
                [x \in 1..Len(Survivors) |->
                    Merge(stmt.table, stmt.join_table,
                          A[Survivors[x][1]], B[Survivors[x][2]])]

\* a join on an unqualified key that both tables have kept one pair and
\* dropped a pair whose left row holds the value and whose right row does not
JoinDroppedPairOnRightField ==
    /\ IsJoin /\ stmt.table # stmt.join_table /\ result.success
    /\ Len(stmt.on) = 1 /\ Len(stmt.on[1].k) = 1
    /\ Len(result.data.rows) = 1
    /\ \E i \in 1..Len(tables[stmt.table].rows) :
       \E j \in 1..Len(tables[stmt.join_table].rows) :
          LET l == tables[stmt.table].rows[i]
              r == tables[stmt.join_table].rows[j]
              v == ParseValue(stmt.on[1].lit)
          IN /\ stmt.on[1].k \in DOMAIN l /\ stmt.on[1].k \in DOMAIN r
             /\ l[stmt.on[1].k] = v /\ r[stmt.on[1].k] # v

\* C25: a SELECT without JOIN and with an explicit column list returns one
\* mapping per row that satisfies WHERE, in row order, each with exactly
\* the requested keys that are columns of the table and the row's values
\* for them (a requested key that is no column is left out, with no
\* error), and leaves the stored rows as they were.
SelectColumnsReturnsRequestedColumns ==
    (Executed("select") /\ OnTable /\ stmt.join_table = "" /\ stmt.columns # <<Star>>
        /\ JoinedByAND(stmt.where))
    => LET matched == SelectSeq(Before.rows, LAMBDA row : Satisfies(row, stmt.where))
           requested == {stmt.columns[i] : i \in 1..Len(stmt.columns)}
       IN /\ result.success
          /\ tables = pre
          /\ Len(result.data.rows) = Len(matched)
          /\ \A x \in 1..Len(matched) :
                /\ DOMAIN result.data.rows[x] = requested \cap ColNames(Before)
                /\ \A c \in requested \cap ColNames(Before) :
                      result.data.rows[x][c] = matched[x][c]

\* every NOT among the tokens is immediately followed by NULL
NotBeforeNull(tokens) ==
    \A i \in 1..Len(tokens) :
        Upper(tokens[i]) = tNOT => (i < Len(tokens) /\ Upper(tokens[i + 1]) = tNULL)

\* the orders of the tokens: the sequences that hold each token as often
Reorderings(tokens) ==
    {[i \in 1..Len(tokens) |-> tokens[f[i]]] :
        f \in {g \in [1..Len(tokens) -> 1..Len(tokens)] :
                 \A i, j \in 1..Len(tokens) : g[i] = g[j] => i = j}}

\* C26: the column descriptor of a CREATE TABLE column definition does not
\* depend on the order of the constraint tokens after the type: with NOT
\* immediately followed by NULL in both orders, every reordering of the
\* tokens parses to the same constraint and nullability.
ConstraintTokenOrderIrrelevant ==
    (Executed("create"))
    => \A d \in 1..Len(stmt.defs) :
          LET def == stmt.defs[d] IN
          def.rest # <<>>
          => \A tokens \in Reorderings(Tail(def.rest)) :
                (NotBeforeNull(Tail(def.rest)) /\ NotBeforeNull(tokens))
                => ParseColumnDef([def EXCEPT !.rest = <<def.rest[1]>> \o tokens])
                      = ParseColumnDef(def)

====
